---- MODULE Spec2Model ----
(***************************************************************************)
(* A model of randperm (Main.cpp): read the non-blank lines of Input.txt,  *)
(* permute them with the standard forward swap pass, write them to         *)
(* Output.txt, return 0.                                                   *)
(*                                                                         *)
(* A file is a sequence of characters, NL being the line terminator; a     *)
(* string is a sequence of characters; the vector of strings is a sequence *)
(* of strings.  Indices of the vector are 0-based in the code and 1-based  *)
(* here: the code's v[k] is vecStrings[k + 1].                             *)
(*                                                                         *)
(* Two specifications share the state and the actions of main:             *)
(*   Spec        one invocation; every draw of the distribution is any     *)
(*               value of its range (the generator as an ideal source);    *)
(*   SpecSeeded  repeated invocations; the draws are computed by the       *)
(*               engine seeded with the epoch time.                        *)
(* The destination is taken to be writable: the properties stated below    *)
(* are about the input side and the shuffle.                               *)
(***************************************************************************)
EXTENDS Integers, Sequences, FiniteSets, Bags, TLC

\* ---------------------------------------------------------------- bounds
MaxFileLen == 6     \* every file over {a, b, NL} up to this length is an input
MaxLines == 4       \* inputs of up to this many distinct one-character lines
MaxTicks == 2       \* seconds that may pass during a behaviour
MaxRuns == 2        \* invocations of the program in SpecSeeded

\* ------------------------------------------------------------- characters
NL == "\n"
AllChars == <<"a", "b", "c", "d", "e", "f">>
LineChars == {AllChars[k] : k \in 1..MaxLines}
ByteChars == {"a", "b", NL}
\* A path is either a file with its content, or NoFile: a path that names no
\* file, or one that cannot be opened.
File(content) == [exists |-> TRUE, data |-> content]
NoFile == [exists |-> FALSE, data |-> <<>>]

\* the epoch second at which the behaviours start
Epoch0 == 1793900000

VARIABLES
  pc,          \* position of main: read, seed, loop, write, return, done
  Input,       \* Input.txt: a file, or NoFile
  Output,      \* Output.txt: a file, or NoFile
  vecStrings,  \* main's vector of strings
  i,           \* Randomize's loop index (0-based, as in the code)
  stdRandom,   \* state of Randomize's engine; 0 before it is constructed
  clock,       \* the system clock when last read, in seconds since the epoch
  exitCode,    \* main's return value; -1 while main runs
  seed,        \* history: the value the engine was seeded with; 0 before
  v0,          \* history: the vector as Randomize received it
  draws,       \* history: the values drawn so far in this call of Randomize
  runs         \* history: one record per finished invocation

vars == <<pc, Input, Output, vecStrings, i, stdRandom, clock, exitCode, seed, v0, draws, runs>>

\* ------------------------------------------------------------ ReadStrings
\* std::ifstream infile(fname): the stream is good iff the file was opened.
IsOpen(file) == file.exists

\* std::getline(infile, strLine) with the stream at position pos (1-based) of
\* content: characters are extracted up to and without the next NL, or up to
\* the end of the file.  The call fails iff nothing at all was extracted, the
\* terminator included: at the end of the file.  line is the string read, next
\* the position after the extracted characters.
RECURSIVE ScanLine(_, _, _)
ScanLine(content, pos, acc) ==
  IF pos > Len(content) THEN [ok |-> TRUE, line |-> acc, next |-> pos]
  ELSE IF content[pos] = NL THEN [ok |-> TRUE, line |-> acc, next |-> pos + 1]
  ELSE ScanLine(content, pos + 1, Append(acc, content[pos]))

GetLine(content, pos) ==
  IF pos > Len(content) THEN [ok |-> FALSE, line |-> <<>>, next |-> pos]
  ELSE ScanLine(content, pos, <<>>)

\* A variant that keeps every line, the empty ones too.
KeepAnyLine(line) == TRUE

\* if(!strLine.empty())
KeepLine(line) == line # <<>>

\* while(std::getline(infile, strLine)) if(!strLine.empty()) v.push_back(strLine);
RECURSIVE ReadLoop(_, _, _)
ReadLoop(content, pos, v) ==
  LET g == GetLine(content, pos)
  IN  IF ~g.ok THEN v
      ELSE ReadLoop(content, g.next, IF KeepLine(g.line) THEN Append(v, g.line) ELSE v)

\* v.clear(): the vector the loop starts from.
Cleared(v) == <<>>

\* ReadStrings(fname, v): the value of v on return.  A stream that failed to
\* open fails its first getline, so the loop body never runs.
ReadStrings(file, v) ==
  IF IsOpen(file) THEN ReadLoop(file.data, 1, Cleared(v)) ELSE Cleared(v)

\* ----------------------------------------------------------- WriteStrings
\* A variant that emits the string without the line break.
EmitLineNoEndl(s) == s

\* outfile << s << std::endl
EmitLine(s) == s \o <<NL>>

\* for(const std::string& s: v) outfile << s << std::endl; from the content
\* the stream already holds.
RECURSIVE WriteLoop(_, _)
WriteLoop(content, v) ==
  IF v = <<>> THEN content ELSE WriteLoop(content \o EmitLine(Head(v)), Tail(v))

\* A variant that opens the destination for appending.
WriteStringsAppend(old, v) == File(WriteLoop(old.data, v))

\* WriteStrings(fname, v): std::ofstream outfile(fname) creates the destination
\* or truncates what it held (old), then every string is emitted in order.
WriteStrings(old, v) == File(WriteLoop(<<>>, v))

\* -------------------------------------------------------------- Randomize
\* GetEpochTime<unsigned>(): std::time(0) in whole seconds.  The cast to
\* unsigned is the identity on the clock values of the model (below 2^31).
GetEpochTime(t) == t

\* std::default_random_engine as libstdc++ defines it: minstd_rand0, the
\* linear congruential engine x' = (16807 * x) mod (2^31 - 1).
LcgA == 16807
LcgM == 2147483647

\* A variant whose seed also depends on how often the program has run.
SeedEngineStale(s) == ((s + Len(runs)) % LcgM) + 1

\* stdRandom.seed(s): the state is s mod m, and 1 when that is 0.
SeedEngine(s) == IF s % LcgM = 0 THEN 1 ELSE s % LcgM

\* One step of the engine, (a * x) mod m, computed by Schrage's method so
\* that no intermediate value exceeds 31 bits.
EngineNext(x) ==
  LET q == LcgM \div LcgA
      r == LcgM % LcgA
      t == LcgA * (x % q) - r * (x \div q)
  IN  IF t < 0 THEN t + LcgM ELSE t

\* A variant that draws from the whole vector at every index.
DrawRangeWhole(k) == 0..(Len(vecStrings) - 1)

\* The range of std::uniform_int_distribution<size_t>(0, k).
DrawRange(k) == 0..k

\* std::uniform_int_distribution<size_t>(0, k)(stdRandom) in libstdc++: the
\* engine's range 0..m-2 is cut into k+1 buckets of equal size and values past
\* the last bucket are rejected.  The value drawn and the engine's state after.
RECURSIVE DrawUniform(_, _)
DrawUniform(x, k) ==
  LET urngrange == (LcgM - 1) - 1
      uerange == k + 1
      scaling == urngrange \div uerange
      past == uerange * scaling
      x1 == EngineNext(x)
      ret == x1 - 1
  IN  IF ret >= past THEN DrawUniform(x1, k)
      ELSE [value |-> ret \div scaling, state |-> x1]

\* A variant that copies v[b] over v[a] and loses v[a].
SwapCopy(v, a, b) == [v EXCEPT ![a + 1] = v[b + 1]]

\* std::swap(v[a], v[b]), a and b 0-based.
Swap(v, a, b) == [v EXCEPT ![a + 1] = v[b + 1], ![b + 1] = v[a + 1]]

\* A variant that stops the loop one element early.
SizeLessOne(v) == Len(v) - 1

\* v.size()
Size(v) == Len(v)

\* Randomize run to completion on v with the draws ds (ds[k + 1] is the
\* value drawn at index k): the loop of swaps as a fold.
RECURSIVE RandomizeFrom(_, _, _)
RandomizeFrom(v, k, ds) ==
  IF k < Size(v) THEN RandomizeFrom(Swap(v, k, ds[k + 1]), k + 1, ds) ELSE v

\* ------------------------------------------------------------ the inputs
\* Every file of at most MaxFileLen characters over {a, b, NL}: all the ways
\* blank lines, a missing final terminator and repeated lines can occur.
ByteFiles == UNION {[1..n -> ByteChars] : n \in 0..MaxFileLen}

\* Files of up to MaxLines distinct one-character lines, each terminated.
LineLists ==
  {s \in UNION {[1..n -> LineChars] : n \in 0..MaxLines} :
     \A a, b \in 1..Len(s) : a # b => s[a] # s[b]}

FileOfLines(s) ==
  [k \in 1..(2 * Len(s)) |-> IF k % 2 = 1 THEN s[(k + 1) \div 2] ELSE NL]

LineFiles == {FileOfLines(s) : s \in LineLists}

Files == {File(d) : d \in ByteFiles \cup LineFiles}

\* What Output.txt may hold before the run: nothing, or an older result.
PriorOutputs == {NoFile, File(<<"b", NL, "a", NL, "b", NL>>)}

\* ----------------------------------------------------------------- state
Init ==
  /\ pc = "read"
  /\ Input \in Files \cup {NoFile}
  /\ Output \in PriorOutputs
  /\ vecStrings = <<>>
  /\ i = 0
  /\ stdRandom = 0
  /\ clock = Epoch0
  /\ exitCode = -1
  /\ seed = 0
  /\ v0 = <<>>
  /\ draws = <<>>
  /\ runs = <<>>

\* main: ReadStrings(L"Input.txt", vecStrings)
ReadStep ==
  /\ pc = "read"
  /\ vecStrings' = ReadStrings(Input, vecStrings)
  /\ pc' = "seed"
  /\ UNCHANGED <<Input, Output, i, stdRandom, clock, exitCode, seed, v0, draws, runs>>

\* The times std::time(0) may return: the clock never runs backwards.
Now == clock..(Epoch0 + MaxTicks)

\* Randomize: the engine is constructed and seeded with the epoch time, read
\* from the clock at this moment; the loop index starts at 0.
SeedStep ==
  /\ pc = "seed"
  /\ \E t \in Now :
       /\ clock' = t
       /\ seed' = GetEpochTime(t)
       /\ stdRandom' = SeedEngine(GetEpochTime(t))
  /\ i' = 0
  /\ v0' = vecStrings
  /\ draws' = <<>>
  /\ pc' = "loop"
  /\ UNCHANGED <<Input, Output, vecStrings, exitCode, runs>>

\* One iteration of the loop with the draw j.
SwapWith(j) ==
  /\ vecStrings' = Swap(vecStrings, i, j)
  /\ draws' = Append(draws, j)
  /\ i' = i + 1
  /\ UNCHANGED <<pc, Input, Output, clock, exitCode, seed, v0, runs>>

\* The iteration with the generator as an ideal source: the draw is any
\* value of the distribution's range; the engine's state is left opaque.
SwapStep ==
  /\ pc = "loop"
  /\ i < Size(vecStrings)
  /\ \E j \in DrawRange(i) : SwapWith(j)
  /\ UNCHANGED stdRandom

\* The iteration with the draw computed by the seeded engine.
SwapStepSeeded ==
  /\ pc = "loop"
  /\ i < Size(vecStrings)
  /\ LET d == DrawUniform(stdRandom, i)
     IN  /\ SwapWith(d.value)
         /\ stdRandom' = d.state

\* The loop condition fails: Randomize returns to main.
LoopExit ==
  /\ pc = "loop"
  /\ ~(i < Size(vecStrings))
  /\ pc' = "write"
  /\ UNCHANGED <<Input, Output, vecStrings, i, stdRandom, clock, exitCode, seed, v0, draws, runs>>

\* main: WriteStrings(L"Output.txt", vecStrings)
WriteStep ==
  /\ pc = "write"
  /\ Output' = WriteStrings(Output, vecStrings)
  /\ pc' = "return"
  /\ UNCHANGED <<Input, vecStrings, i, stdRandom, clock, exitCode, seed, v0, draws, runs>>

\* main: return 0
ReturnStep ==
  /\ pc = "return"
  /\ exitCode' = 0
  /\ runs' = Append(runs, [seed |-> seed, input |-> Input, output |-> Output])
  /\ pc' = "done"
  /\ UNCHANGED <<Input, Output, vecStrings, i, stdRandom, clock, seed, v0, draws>>

\* The environment: the program is invoked again.  Nothing of the previous
\* process survives but the two files.
Restart ==
  /\ pc = "done"
  /\ Len(runs) < MaxRuns
  /\ pc' = "read"
  /\ vecStrings' = <<>>
  /\ i' = 0
  /\ stdRandom' = 0
  /\ exitCode' = -1
  /\ seed' = 0
  /\ v0' = <<>>
  /\ draws' = <<>>
  /\ UNCHANGED <<Input, Output, clock, runs>>

\* The environment: between two invocations the input is cut, once, by its
\* last character.
EditInput ==
  /\ pc = "done"
  /\ Len(runs) < MaxRuns
  /\ Input = runs[Len(runs)].input
  /\ IsOpen(Input)
  /\ Input.data # <<>>
  /\ Input' = File(SubSeq(Input.data, 1, Len(Input.data) - 1))
  /\ UNCHANGED <<pc, Output, vecStrings, i, stdRandom, clock, exitCode, seed, v0, draws, runs>>

Next ==
  \/ ReadStep
  \/ SeedStep
  \/ SwapStep
  \/ LoopExit
  \/ WriteStep
  \/ ReturnStep

Spec == Init /\ [][Next]_vars

NextSeeded ==
  \/ ReadStep
  \/ SeedStep
  \/ SwapStepSeeded
  \/ LoopExit
  \/ WriteStep
  \/ ReturnStep
  \/ Restart
  \/ EditInput

SpecSeeded == Init /\ [][NextSeeded]_vars

TypeOK ==
  /\ pc \in {"read", "seed", "loop", "write", "return", "done"}
  /\ i \in 0..Len(vecStrings)
  /\ exitCode \in {-1, 0}
  /\ Len(draws) = i

\* ============================================================ properties
\* What the properties speak of, defined without the program's loops.

\* The records of a file: the pieces between its terminators, and the piece
\* after the last terminator when it is not empty.
NLPositions(c) == {p \in 1..Len(c) : c[p] = NL}

Records(c) ==
  LET nls == NLPositions(c)
      m == Cardinality(nls)
      \* nl[k] is the position of the k-th terminator
      nl == [k \in 1..m |-> CHOOSE p \in nls : Cardinality({q \in nls : q <= p}) = k]
      last == IF m = 0 THEN 0 ELSE nl[m]
      terminated ==
        [k \in 1..m |-> SubSeq(c, IF k = 1 THEN 1 ELSE nl[k - 1] + 1, nl[k] - 1)]
  IN  IF last < Len(c) THEN Append(terminated, SubSeq(c, last + 1, Len(c)))
      ELSE terminated

\* The lines a path holds: none when it cannot be opened.
LinesOf(f) == IF f.exists THEN Records(f.data) ELSE <<>>

NonBlankLines(f) == SelectSeq(LinesOf(f), LAMBDA r : r # <<>>)

Range(q) == {q[k] : k \in DOMAIN q}

BagOfSeq(q) == [x \in Range(q) |-> Cardinality({k \in DOMAIN q : q[k] = x})]

IsPermutationOf(a, b) == BagOfSeq(a) = BagOfSeq(b)

Distinct(q) == \A a, b \in DOMAIN q : a # b => q[a] # q[b]

\* The admissible draw sequences for n elements: 0 <= j_k <= k at index k.
DrawSeqs(n) == {d \in [1..n -> 0..(n - 1)] : \A k \in 1..n : d[k] <= k - 1}

\* All orderings of the elements of a sequence of distinct elements.
Orderings(q) == {p \in [1..Len(q) -> Range(q)] : Distinct(p)}

AfterRead == pc \in {"seed", "loop", "write", "return", "done"}
AfterLoop == pc \in {"write", "return", "done"}
AfterWrite == pc \in {"return", "done"}

\* C1: on n distinct elements Randomize maps the admissible draw sequences
\* one-to-one onto the n! orderings of the input: the draws the loop makes are
\* admissible, its result is the fold of the swaps over them, no two admissible
\* draw sequences give the same result, and every ordering is the result of one.
C1_DrawsOntoOrderings ==
  /\ (pc = "loop" /\ i = 0 /\ Distinct(v0)) =>
       LET D == DrawSeqs(Len(v0))
           image == {RandomizeFrom(v0, 0, d) : d \in D}
       IN  /\ image = Orderings(v0)
           /\ Cardinality(image) = Cardinality(D)
  /\ (AfterLoop /\ Distinct(v0)) =>
       /\ draws \in DrawSeqs(Len(v0))
       /\ vecStrings = RandomizeFrom(v0, 0, draws)

\* C1 witness: a run on four distinct lines ended in an ordering other than
\* the input's.
C1_Witness ==
  /\ pc = "write"
  /\ Len(v0) = 4
  /\ Distinct(v0)
  /\ vecStrings # v0

\* C2: the multiset of the vector is that of the input's non-blank lines in
\* every state from the read on (before, between and after the swaps), and
\* the lines of the output written are the same multiset, so as many.
C2_MultisetConserved ==
  AfterRead =>
     LET lines == BagOfSeq(NonBlankLines(Input))
     IN  /\ BagOfSeq(vecStrings) = lines
         /\ AfterWrite =>
              /\ BagOfSeq(LinesOf(Output)) = lines
              /\ Len(LinesOf(Output)) = Len(NonBlankLines(Input))

\* C2 witness: an input with a blank line and a repeated line was shuffled
\* into another order and written.
C2_Witness ==
  /\ pc = "done"
  /\ Len(LinesOf(Input)) > Len(NonBlankLines(Input))
  /\ ~Distinct(v0)
  /\ vecStrings # v0

\* The vectors ReadStrings may be handed.
PriorVectors == {<<>>, << <<"a">> >>, << <<"b">>, <<"a", "b">> >>}

\* C3: on a readable input ReadStrings returns the non-empty lines of the
\* input in their order, unchanged, whatever the vector held before; no blank
\* line is in the result.
C3_ReadNonBlankInOrder ==
  (pc = "seed" /\ IsOpen(Input)) =>
     LET lines == NonBlankLines(Input)
     IN  /\ vecStrings = lines
         /\ \A k \in DOMAIN vecStrings : vecStrings[k] # <<>>
         /\ \A prior \in PriorVectors : ReadStrings(Input, prior) = lines

\* C3 witness: an input with a blank line between two lines, the last one
\* without terminator, has been read.
C3_Witness ==
  /\ pc = "seed"
  /\ IsOpen(Input)
  /\ Len(vecStrings) = 2
  /\ Len(LinesOf(Input)) = 3
  /\ Input.data[Len(Input.data)] # NL

\* C4: a missing input is fatal: the run stops at the read, with no shuffle,
\* no write of the output and no successful exit.
C4_MissingInputIsFatal ==
  ~IsOpen(Input) => /\ pc = "read"
                    /\ Output \in PriorOutputs
                    /\ exitCode # 0

\* C5: with a missing input the read yields the empty vector, Randomize makes
\* no swap, the output written has zero records and main returns 0.
C5_MissingInputEmptyOutput ==
  ~IsOpen(Input) =>
     /\ AfterRead => vecStrings = <<>>
     /\ AfterLoop => draws = <<>>
     /\ AfterWrite => Output = File(<<>>)
     /\ pc = "done" => exitCode = 0
     /\ exitCode \in {-1, 0}

\* C5 witness: the run on a missing input finished over an older output.
C5_Witness ==
  /\ ~IsOpen(Input)
  /\ pc = "done"
  /\ exitCode = 0
  /\ IsOpen(Output)
  /\ Len(runs) = 1

\* C6: reading back the output a run wrote yields the vector written.
C6_RoundTrip ==
  AfterWrite => /\ ReadStrings(Output, <<>>) = vecStrings
                /\ \A prior \in PriorVectors : ReadStrings(Output, prior) = vecStrings

\* C6 witness: a vector of two lines, one of two characters, was written.
C6_Witness ==
  /\ pc = "return"
  /\ Len(vecStrings) = 2
  /\ \E k \in 1..2 : Len(vecStrings[k]) = 2

\* C7: two invocations with the same seed and the same input file produce the
\* same output.
C7_SameSeedSameOutput ==
  \A a, b \in DOMAIN runs :
     (runs[a].seed = runs[b].seed /\ runs[a].input = runs[b].input)
        => runs[a].output = runs[b].output

\* C7 witness: two invocations in the same second on the same input of three
\* lines, the output in another order than the input.
C7_Witness ==
  /\ Len(runs) = 2
  /\ runs[1].seed = runs[2].seed
  /\ runs[1].input = runs[2].input
  /\ Len(LinesOf(runs[2].output)) >= 3
  /\ LinesOf(runs[2].output) # NonBlankLines(runs[2].input)

\* C8: with the indices below i processed, the positions below i hold a
\* permutation of the first i elements Randomize received and every position
\* from i on holds what it received.
C8_LoopInvariant ==
  pc = "loop" =>
     /\ Len(vecStrings) = Len(v0)
     /\ IsPermutationOf(SubSeq(vecStrings, 1, i), SubSeq(v0, 1, i))
     /\ \A k \in (i + 1)..Len(v0) : vecStrings[k] = v0[k]

\* C8 witness: two of four distinct lines processed and exchanged.
C8_Witness ==
  /\ pc = "loop"
  /\ i = 2
  /\ Len(v0) = 4
  /\ Distinct(v0)
  /\ vecStrings # v0

\* One iteration exchanges the positions i and j and nothing else.
C9_Step ==
  (pc = "loop" /\ i' = i + 1) =>
     LET j == draws'[i + 1]
     IN  /\ Len(vecStrings') = Len(vecStrings)
         /\ vecStrings'[i + 1] = vecStrings[j + 1]
         /\ vecStrings'[j + 1] = vecStrings[i + 1]
         /\ \A k \in DOMAIN vecStrings :
              k \notin {i + 1, j + 1} => vecStrings'[k] = vecStrings[k]
         /\ j = i => vecStrings' = vecStrings

\* Draws that all equal their index leave the input as it was; on two
\* elements the draw 0 at index 1 exchanges them.
C9_Final ==
  AfterLoop =>
     /\ (\A k \in DOMAIN draws : draws[k] = k - 1) => vecStrings = v0
     /\ (Len(v0) = 2 /\ draws = <<0, 0>>) => vecStrings = <<v0[2], v0[1]>>

\* C9: each step with draw j exchanges the elements at i and j and leaves the
\* other positions alone, a step with j = i changes nothing; so draws equal to
\* their indices give the input back, and the draw 0 at index 1 of a
\* two-element input gives the two elements exchanged.
C9_ExchangeOnly == [][C9_Step]_vars /\ []C9_Final

\* C9 witness: a two-element input with the draw 0 at index 1, exchanged.
C9_Witness ==
  /\ pc = "write"
  /\ Len(v0) = 2
  /\ v0[1] # v0[2]
  /\ draws = <<0, 0>>
  /\ vecStrings = <<v0[2], v0[1]>>

\* C10, first form: Randomize on zero or one element makes no draw.
C10_NoDrawUpToOne ==
  (AfterLoop /\ Len(v0) <= 1) => Len(draws) = 0

\* C10, second form: Randomize on n elements makes exactly n draws, the one at
\* index k from the range 0..k: none for n = 0, and for n = 1 one draw from the
\* range 0..0, whose only value 0 leaves the element where it is.
C10_OneDrawPerElement ==
  AfterLoop =>
     /\ Len(draws) = Len(v0)
     /\ \A k \in DOMAIN draws : draws[k] \in 0..(k - 1)
     /\ Len(v0) = 0 => draws = <<>>
     /\ Len(v0) = 1 => draws = <<0>> /\ vecStrings = v0

\* C10 witness: Randomize returned from a one-element vector after one draw.
C10_Witness ==
  /\ pc = "write"
  /\ Len(v0) = 1
  /\ draws = <<0>>

====
